---- MODULE Spec2Model ----
(***************************************************************************)
(* Model of kibana-prometheus-exporter: the exporter package (Exporter,    *)
(* KibanaCollector), the config package (KibanaConfig) and main.go, its    *)
(* start-up and its HTTP handler.                                          *)
(*                                                                         *)
(* Go strings the code transforms (strings.ToLower, fmt.Sprintf("%d"))     *)
(* are sequences of one-character strings; strings the code only compares  *)
(* or stores (names, versions) are TLA+ strings.  Pointers to collectors   *)
(* are indices into Exporter.Collectors, the nil pointer is NoColl.        *)
(***************************************************************************)
EXTENDS Integers, Sequences, FiniteSets, TLC

\* ------------------------------------------------------------------ bounds
NumProcs == 2
NumCollectors == 2
NumSamples == 2
MaxNsLen == 2
MaxCtorColls == 2

Procs == 1..NumProcs
NoProc == 0
NoColl == 0

\* ------------------------------------------------------------- Go strings
UpperChars == <<"A","B","C","D","E","F","G","H","I","J","K","L","M",
                "N","O","P","Q","R","S","T","U","V","W","X","Y","Z">>
LowerChars == <<"a","b","c","d","e","f","g","h","i","j","k","l","m",
                "n","o","p","q","r","s","t","u","v","w","x","y","z">>

\* strings.ToLower on one ASCII character
LowerChar(c) ==
    IF \E i \in DOMAIN UpperChars : UpperChars[i] = c
    THEN LowerChars[CHOOSE i \in DOMAIN UpperChars : UpperChars[i] = c]
    ELSE c

\* strings.ToLower
ToLower(s) == [i \in DOMAIN s |-> LowerChar(s[i])]

DigitChars == <<"0","1","2","3","4","5","6","7","8","9">>

RECURSIVE Digits(_)
Digits(n) == IF n < 10 THEN <<DigitChars[n + 1]>>
             ELSE Append(Digits(n \div 10), DigitChars[(n % 10) + 1])

\* fmt.Sprintf("%d", n)
FormatInt(n) == IF n < 0 THEN <<"-">> \o Digits(0 - n) ELSE Digits(n)

\* float64(n) of an integer: exact for |n| <= 2^53, which covers every
\* integer the model checker represents
Float64(n) == n

\* ------------------------------------------------------ upstream payloads
\* values of status.overall.state a target may answer with
StateStrs == { <<"g","r","e","e","n">>, <<"G","r","e","e","n">>,
               <<"G","R","E","E","N">>, <<"y","e","l","l","o","w">>,
               <<"r","e","d">>, <<>> }

Samples == 1..NumSamples

\* *KibanaMetrics; isNil marks the nil pointer
KibanaMetrics(st, i) ==
    [ isNil |-> FALSE,
      State |-> st,
      Version |-> i,
      Build |-> 46635 + i,
      ConcurrentConnections |-> i,
      UptimeInMillis |-> 1000 + i,
      TotalInBytes |-> 2000 + i,
      UsedInBytes |-> 3000 + i,
      Load1m |-> 10 + i,
      Load5m |-> 20 + i,
      Load15m |-> 30 + i,
      AvgInMillis |-> 40 + i,
      MaxInMillis |-> 50 + i,
      Disconnects |-> 60 + i,
      Total |-> 70 + i ]

NilMetrics == [KibanaMetrics(<<>>, 0) EXCEPT !.isNil = TRUE]

\* the payloads targets answer with: every sample as "green", and the first
\* sample in every state
Payloads ==
    { KibanaMetrics(<<"g","r","e","e","n">>, i) : i \in Samples }
    \cup { KibanaMetrics(st, 1) : st \in StateStrs }

\* the payloads of the first sample only
FirstPayloads == { KibanaMetrics(st, 1) : st \in StateStrs }

\* how one call of client.Do and the reading of its answer can end without a
\* decoded payload
FetchFailures == {"senderr", "non200", "readerr", "badjson", "nullbody"}

\* the answers of a target that can answer with the payloads P
FetchResults(P) ==
    { [o |-> f, m |-> NilMetrics] : f \in FetchFailures }
    \cup { [o |-> "ok", m |-> m] : m \in P }

\* --------------------------------------------------------------- metrics
Sample(name, labels, value) == [name |-> name, labels |-> labels, value |-> value]

SecondaryNames == <<"concurrent_connections", "millis_uptime", "heap_max_in_bytes",
                    "heap_used_in_bytes", "os_load_1m", "os_load_5m", "os_load_15m",
                    "response_average", "response_max", "requests_disconnects",
                    "requests_total">>

\* the eleven plain gauges after NewGauge: all zero
ZeroGauges == [i \in DOMAIN SecondaryNames |-> 0]

\* all orders in which a map of label sets can be iterated
Orderings(S) == { s \in [1..Cardinality(S) -> S] :
                    \A i, j \in 1..Cardinality(S) : i # j => s[i] # s[j] }

\* ------------------------------------------------------------ collectors
TargetName(i) == <<"k", i>>

TargetNames == { TargetName(i) : i \in 1..NumCollectors }

\* a *KibanaCollector of a collector list; reqOk: http.NewRequest accepts its URL
Collector(name, ok) == [isNil |-> FALSE, Name |-> name, reqOk |-> ok]
NilCollector == [isNil |-> TRUE, Name |-> <<>>, reqOk |-> FALSE]

CollectorSet == { Collector(n, ok) : n \in TargetNames, ok \in BOOLEAN }

\* collector lists of distinct names, as main.go builds them from a
\* configuration of one target or of NumCollectors targets
ConfiguredLists ==
    UNION { { [i \in 1..n |-> Collector(TargetName(i), ok[i])] : ok \in [1..n -> BOOLEAN] }
            : n \in {1, NumCollectors} }

SeqsUpTo(S, lo, hi) == UNION { [1..n -> S] : n \in lo..hi }

RECURSIVE BuildByName(_, _, _)
BuildByName(colls, i, m) ==
    IF i > Len(colls) THEN m
    ELSE BuildByName(colls, i + 1,
            [n \in (DOMAIN m) \cup {colls[i].Name} |->
                IF n = colls[i].Name THEN i ELSE m[n]])

EmptyMap == [n \in {} |-> NoColl]

\* NewExporter: result "ok" is (exporter, nil); "panic" the nil dereference of
\* coll.kibana.Name on a nil list element; no path returns an error
NewExporter(ns, colls) ==
    IF \E i \in DOMAIN colls : colls[i].isNil
    THEN [result |-> "panic", KibanaByName |-> EmptyMap]
    ELSE [result |-> "ok", KibanaByName |-> BuildByName(colls, 1, EmptyMap)]

\* ---------------------------------------------------------- configuration
\* the printable ASCII characters, from code 32 on (the double quote, the
\* backslash and the backquote by name)
AsciiChars == <<" ","!","quote","#","$","%","&","'","(",")","*","+",",","-",".","/",
                "0","1","2","3","4","5","6","7","8","9",":",";","<","=",">","?",
                "@","A","B","C","D","E","F","G","H","I","J","K","L","M","N","O",
                "P","Q","R","S","T","U","V","W","X","Y","Z","[","backslash","]","^","_",
                "backquote","a","b","c","d","e","f","g","h","i","j","k","l","m","n","o",
                "p","q","r","s","t","u","v","w","x","y","z","{","|","}","~">>

\* the byte of a character
ByteOf(c) == 31 + (CHOOSE i \in DOMAIN AsciiChars : AsciiChars[i] = c)

\* []byte(s)
BytesOf(s) == [i \in DOMAIN s |-> ByteOf(s[i])]

\* the alphabet of base64.StdEncoding
Base64Chars == <<"A","B","C","D","E","F","G","H","I","J","K","L","M","N","O","P",
                  "Q","R","S","T","U","V","W","X","Y","Z","a","b","c","d","e","f",
                  "g","h","i","j","k","l","m","n","o","p","q","r","s","t","u","v",
                  "w","x","y","z","0","1","2","3","4","5","6","7","8","9","+","/">>

Enc(n) == Base64Chars[n + 1]

RECURSIVE EncodeToString(_)
\* base64.StdEncoding.EncodeToString: three bytes to four characters, the
\* last group padded with "="
EncodeToString(b) ==
    IF Len(b) = 0 THEN <<>>
    ELSE IF Len(b) = 1
    THEN <<Enc(b[1] \div 4), Enc((b[1] % 4) * 16), "=", "=">>
    ELSE IF Len(b) = 2
    THEN <<Enc(b[1] \div 4), Enc((b[1] % 4) * 16 + b[2] \div 16),
           Enc((b[2] % 16) * 4), "=">>
    ELSE <<Enc(b[1] \div 4), Enc((b[1] % 4) * 16 + b[2] \div 16),
           Enc((b[2] % 16) * 4 + b[3] \div 64), Enc(b[3] % 64)>>
         \o EncodeToString(SubSeq(b, 4, Len(b)))

\* strings.HasPrefix
HasPrefix(s, pre) == Len(s) >= Len(pre) /\ SubSeq(s, 1, Len(pre)) = pre

\* s without its first n characters
Drop(s, n) == SubSeq(s, n + 1, Len(s))

\* the characters \d matches
DigitSet == {"0","1","2","3","4","5","6","7","8","9"}

\* the characters [^:] matches
NotColon == {AsciiChars[i] : i \in DOMAIN AsciiChars} \ {":"}

\* the length of the longest prefix of s made of characters of class
Span(s, class) ==
    CHOOSE n \in 0..Len(s) :
        /\ \A i \in 1..n : s[i] \in class
        /\ (n = Len(s) \/ s[n + 1] \notin class)

\* config.KibanaConfig
KibanaConfig(name, proto, host, port, user, pass, skipS, waitS) ==
    [ Name |-> name, Protocol |-> proto, Host |-> host, Port |-> port,
      Username |-> user, Password |-> pass, Skip |-> skipS, Wait |-> waitS,
      uri |-> <<>>, skip |-> FALSE, wait |-> FALSE ]

\* strconv.ParseBool
ParseBool(str) ==
    IF str \in { <<"1">>, <<"t">>, <<"T">>, <<"T","R","U","E">>,
                 <<"t","r","u","e">>, <<"T","r","u","e">> }
    THEN [val |-> TRUE, err |-> FALSE]
    ELSE IF str \in { <<"0">>, <<"f">>, <<"F">>, <<"F","A","L","S","E">>,
                      <<"f","a","l","s","e">>, <<"F","a","l","s","e">> }
    THEN [val |-> FALSE, err |-> FALSE]
    ELSE [val |-> FALSE, err |-> TRUE]

parseBoolNoLower(val) ==
    ParseBool(IF val = <<"n","o">> THEN <<"0">>
              ELSE IF val = <<"y","e","s">> THEN <<"1">> ELSE val)

\* config.parseBool
parseBool(val) ==
    ParseBool(IF ToLower(val) = <<"n","o">> THEN <<"0">>
              ELSE IF ToLower(val) = <<"y","e","s">> THEN <<"1">> ELSE ToLower(val))

urlAppend(c) == c.uri \o c.Protocol \o <<":","/","/">> \o c.Host \o <<":">> \o c.Port

\* KibanaConfig.url
url(c) == c.Protocol \o <<":","/","/">> \o c.Host \o <<":">> \o c.Port

\* KibanaConfig.check, the defaults of protocol, host and port
WithDefaults(c) ==
    [c EXCEPT !.Protocol = IF c.Protocol = <<>> THEN <<"h","t","t","p">> ELSE c.Protocol,
              !.Host = IF c.Host = <<>> THEN <<"l","o","c","a","l","h","o","s","t">> ELSE c.Host,
              !.Port = IF c.Port = <<>> THEN <<"5","6","0","1">> ELSE c.Port]

\* KibanaConfig.check: the profile it leaves and whether it returned an error
check(c) ==
    IF c.Name = <<>> THEN [c |-> c, err |-> TRUE]
    ELSE LET d == WithDefaults(c)
             sk == IF d.Skip = <<>> THEN [val |-> FALSE, err |-> FALSE]
                   ELSE parseBool(d.Skip)
             d1 == [d EXCEPT !.skip = sk.val]
             wt == IF d.Wait = <<>> THEN [val |-> FALSE, err |-> FALSE]
                   ELSE parseBool(d.Wait)
             d2 == [d1 EXCEPT !.wait = wt.val]
         IN  IF sk.err THEN [c |-> d1, err |-> TRUE]
             ELSE IF wt.err THEN [c |-> d2, err |-> TRUE]
             ELSE [c |-> [d2 EXCEPT !.uri = url(d2)], err |-> FALSE]

NoMatch == [ok |-> FALSE, proto |-> <<>>, host |-> <<>>, port |-> <<>>]

\* the match of the rest of the pattern after (https?)://
MatchHostPort(proto, rest, hostLen, portLen) ==
    IF hostLen >= 1 /\ Len(rest) > hostLen /\ rest[hostLen + 1] = ":" /\ portLen >= 1
    THEN [ok |-> TRUE, proto |-> proto, host |-> SubSeq(rest, 1, hostLen),
          port |-> SubSeq(rest, hostLen + 2, hostLen + 1 + portLen)]
    ELSE NoMatch

FindStringSubmatchOneDigit(u) ==
    IF HasPrefix(u, <<"h","t","t","p","s",":","/","/">>)
    THEN MatchHostPort(<<"h","t","t","p","s">>, Drop(u, 8), Span(Drop(u, 8), NotColon),
             IF Span(Drop(Drop(u, 8), Span(Drop(u, 8), NotColon) + 1), DigitSet) >= 1
             THEN 1 ELSE 0)
    ELSE IF HasPrefix(u, <<"h","t","t","p",":","/","/">>)
    THEN MatchHostPort(<<"h","t","t","p">>, Drop(u, 7), Span(Drop(u, 7), NotColon),
             IF Span(Drop(Drop(u, 7), Span(Drop(u, 7), NotColon) + 1), DigitSet) >= 1
             THEN 1 ELSE 0)
    ELSE NoMatch

\* urlLineRE.FindStringSubmatch for ^(https?)://([^:]+)(?::(\d+)): the scheme,
\* the longest run of characters other than ":", a ":" and the longest run
\* of digits, of which there must be one
FindStringSubmatch(u) ==
    IF HasPrefix(u, <<"h","t","t","p","s",":","/","/">>)
    THEN MatchHostPort(<<"h","t","t","p","s">>, Drop(u, 8), Span(Drop(u, 8), NotColon),
             Span(Drop(Drop(u, 8), Span(Drop(u, 8), NotColon) + 1), DigitSet))
    ELSE IF HasPrefix(u, <<"h","t","t","p",":","/","/">>)
    THEN MatchHostPort(<<"h","t","t","p">>, Drop(u, 7), Span(Drop(u, 7), NotColon),
             Span(Drop(Drop(u, 7), Span(Drop(u, 7), NotColon) + 1), DigitSet))
    ELSE NoMatch

\* KibanaConfig.SetDefault
SetDefault(c, u, skipTls, wait) ==
    LET match == FindStringSubmatch(u)
        d == IF match.ok
             THEN [c EXCEPT !.Protocol = match.proto, !.Host = match.host,
                            !.Port = match.port]
             ELSE c
    IN  [d EXCEPT !.uri = u, !.skip = skipTls, !.wait = wait]

\* KibanaConfig.Url
Url(c) == c.uri

\* KibanaConfig.SkipTls
SkipTls(c) == c.skip

\* KibanaConfig.WaitKibana
WaitKibana(c) == c.wait

\* no collector built yet
NoCollector ==
    [built |-> FALSE, err |-> FALSE, tls |-> FALSE, InsecureSkipVerify |-> FALSE,
     authHeader |-> <<>>]

NewCollectorEitherCredential(k) ==
    [ built |-> TRUE,
      err |-> FALSE,
      tls |-> HasPrefix(k.Protocol, <<"h","t","t","p","s">>),
      InsecureSkipVerify |-> HasPrefix(k.Protocol, <<"h","t","t","p","s">>) /\ SkipTls(k),
      authHeader |->
          IF k.Username # <<>> \/ k.Password # <<>>
          THEN <<"B","a","s","i","c"," ">>
               \o EncodeToString(BytesOf(k.Username \o <<":">> \o k.Password))
          ELSE <<>> ]

\* NewCollector: the client has a TLS policy (tls) carrying the profile's
\* skip flag only under https; the auth header is computed when both
\* credentials are present; it always returns a nil error
NewCollector(k) ==
    [ built |-> TRUE,
      err |-> FALSE,
      tls |-> HasPrefix(k.Protocol, <<"h","t","t","p","s">>),
      InsecureSkipVerify |-> HasPrefix(k.Protocol, <<"h","t","t","p","s">>) /\ SkipTls(k),
      authHeader |->
          IF k.Username # <<>> /\ k.Password # <<>>
          THEN <<"B","a","s","i","c"," ">>
               \o EncodeToString(BytesOf(k.Username \o <<":">> \o k.Password))
          ELSE <<>> ]

\* ----------------------------------------------- configuration inputs
\* values of the fields skip-tls and wait in a configuration file
BoolInputs == { <<>>,
    <<"y","e","s">>, <<"Y","E","S">>, <<"N","o">>, <<"n","o">>,
    <<"t","r","u","e">>, <<"T","R","U","E">>, <<"t","R","u","E">>,
    <<"f","a","l","s","e">>, <<"F","a","l","s","e">>, <<"1">>, <<"0">>,
    <<"t">>, <<"T">>, <<"f">>, <<"F">>, <<"o","n">>, <<"2">>, <<"y">>,
    <<"m","a","y","b","e">> }

WaitInputs == { <<>>, <<"y","e","s">>, <<"F">>, <<"0">>, <<"m","a","y","b","e">> }

Usernames == { <<>>, <<"k","i","b","a","n","a","u">>, <<"a","b">> }
Passwords == { <<>>, <<"k","i","b","a","n","a","p">>, <<"c">> }

\* profiles as a configuration file gives them, before validation
RawConfigs ==
    { KibanaConfig(n, pr, h, po, u, pw, sk, wt) :
        n \in {<<>>, TargetName(1)},
        pr \in {<<>>, <<"h","t","t","p","s">>},
        h \in {<<>>, <<"e","x","a","m","p","l","e",".","o","r","g">>},
        po \in {<<>>, <<"9","2","0","1">>},
        u \in Usernames, pw \in Passwords,
        sk \in BoolInputs, wt \in WaitInputs }

\* the profile main.go and the tests hand to SetDefault
FreshConfigs ==
    { KibanaConfig(TargetName(1), <<>>, <<>>, <<>>, u, pw, <<>>, <<>>) :
        u \in Usernames, pw \in Passwords }

Schemes == { <<"h","t","t","p">>, <<"h","t","t","p","s">> }
Hosts == { <<"l","o","c","a","l","h","o","s","t">>, <<"e","x","a","m","p","l","e",".","o","r","g">>, <<"a","/","b">> }
Ports == { <<"5","6","0","1">>, <<"9","2","0","1">>, <<"0">> }

\* scheme://host:port
UrlOf(sch, h, po) == sch \o <<":","/","/">> \o h \o <<":">> \o po

\* URLs given on the command line: complete ones, and ones without a port,
\* with an empty host or port, with another scheme, with a path
UrlInputs ==
    { UrlOf(sch, h, po) : sch \in Schemes, h \in Hosts, po \in Ports }
    \cup { <<"h","t","t","p","s",":","/","/","e","x","a","m","p","l","e",".","o","r","g">>, <<"h","t","t","p",":","/","/","l","o","c","a","l","h","o","s","t">>,
           <<"f","t","p",":","/","/","h",":","2","1">>, <<"h","t","t","p","s",":","/","/",":","4","4","3">>, <<"h","t","t","p","s",":","/","/","h",":">>,
           <<"h","t","t","p","s",":","/","/","h",":","8","0","/","x">> }

\* ------------------------------------------------------------------ state
VARIABLES
    namespace,      \* argument of NewExporter
    Collectors,     \* Exporter.Collectors
    built,          \* "no" before NewExporter is called, then its result
    KibanaByName,   \* Exporter.KibanaByName
    target,         \* Exporter.target
    lock,           \* Exporter.lock: the holder, or NoProc
    State,          \* KibanaCollector.State of each collector
    status,         \* Exporter.status
    info,           \* Exporter.info: the label sets of the vector (all at 1)
    gauges,         \* the eleven plain gauges, in the order of SecondaryNames
    pc,             \* where each request is
    param,          \* the target query parameter of the request
    bound,          \* the collector the request passed to SetTarget
    scr,            \* the receiver of the request's scrape call
    gets,           \* client.Do calls of the request's cycle
    outcome,        \* how the scrape of the cycle ended
    metrics,        \* the *KibanaMetrics scrape returned
    emitted,        \* what the cycle wrote to the channel
    crashed,        \* an unrecovered panic ended the process
    cfg,            \* a configuration profile and what was applied to it
    boot,           \* main: its flags, its position, its local variables
    conn            \* a caller of TestConnection or WaitForConnection

vars == <<namespace, Collectors, built, KibanaByName, target, lock, State, status,
          info, gauges, pc, param, bound, scr, gets, outcome, metrics, emitted,
          crashed, cfg, boot, conn>>

\* what a request leaves alone: the constructed exporter and the start-up state
exporterVars == <<namespace, Collectors, built, KibanaByName, cfg, boot, conn>>

\* no profile at hand
IdleCfg ==
    [ op |-> "idle", via |-> "none", kibana |-> KibanaConfig(<<>>, <<>>, <<>>, <<>>, <<>>, <<>>, <<>>, <<>>),
      prev |-> KibanaConfig(<<>>, <<>>, <<>>, <<>>, <<>>, <<>>, <<>>, <<>>),
      nchecks |-> 0, err |-> FALSE, url |-> <<>>, skipTls |-> FALSE,
      waitArg |-> FALSE, collector |-> NoCollector ]

\* main has run to ListenAndServe; nothing of its start-up is looked at
IdleBoot == [ step |-> "served" ]

\* nobody calls TestConnection or WaitForConnection
IdleConn ==
    [ pc |-> "idle", c |-> NoColl, loop |-> FALSE, result |-> FALSE,
      failed |-> FALSE, o |-> "none", up |-> FALSE ]

\* namespace of main.go
KibanaNamespace == <<"k","i","b","a","n","a">>

\* an absent target query parameter
NoParam == <<>>

\* the request-local state at the start of a request
InitLocals ==
    /\ pc = [p \in Procs |-> "idle"]
    /\ param = [p \in Procs |-> NoParam]
    /\ bound = [p \in Procs |-> NoColl]
    /\ scr = [p \in Procs |-> NoColl]
    /\ gets = [p \in Procs |-> 0]
    /\ outcome = [p \in Procs |-> "none"]
    /\ metrics = [p \in Procs |-> NilMetrics]
    /\ emitted = [p \in Procs |-> <<>>]

\* a freshly constructed exporter: gauges at zero, no target, lock free
InitExporter ==
    /\ target = NoColl
    /\ lock = NoProc
    /\ status = 0
    /\ info = {}
    /\ gauges = ZeroGauges
    /\ crashed = FALSE

\* main.go: at least one collector, NewCollector never returns nil,
\* NewExporter(namespace, collectors, ...) has returned
Init ==
    /\ namespace = KibanaNamespace
    /\ Collectors \in ConfiguredLists
    /\ built = NewExporter(namespace, Collectors).result
    /\ KibanaByName = NewExporter(namespace, Collectors).KibanaByName
    /\ State = [c \in DOMAIN Collectors |-> FALSE]
    /\ InitExporter
    /\ InitLocals
    /\ cfg = IdleCfg
    /\ boot = IdleBoot
    /\ conn = IdleConn

\* ---------------------------------------------------------- the exporter
\* Exporter.FindTarget
FindTarget(name) ==
    IF name \in DOMAIN KibanaByName THEN KibanaByName[name] ELSE NoColl

\* Exporter.SetTarget
SetTarget(c) == target' = c

\* a request with query parameter t that bound c enters Collect
Enter(p, t, c) ==
    /\ pc' = [pc EXCEPT ![p] = "collect"]
    /\ param' = [param EXCEPT ![p] = t]
    /\ bound' = [bound EXCEPT ![p] = c]
    /\ UNCHANGED <<scr, gets, outcome, metrics, emitted>>

\* the values of the target query parameter: absent, the first name, or the
\* last name (which the configuration at hand may or may not hold)
TargetParams == {NoParam, TargetName(1), TargetName(NumCollectors)}

\* handler of main.go: both branches bind Collectors[0], then the registry
\* calls Collect
handler(p, t) ==
    /\ ~crashed
    /\ pc[p] = "idle"
    /\ IF t = NoParam THEN SetTarget(1) ELSE SetTarget(1)
    /\ Enter(p, t, 1)
    /\ UNCHANGED <<exporterVars, lock, State, status, info, gauges, crashed>>

\* a caller of the package: SetTarget(c), then Collect
ApiSetTarget(p, c) ==
    /\ ~crashed
    /\ pc[p] = "idle"
    /\ SetTarget(c)
    /\ Enter(p, NoParam, c)
    /\ UNCHANGED <<exporterVars, lock, State, status, info, gauges, crashed>>

\* a caller of the package: Collect without SetTarget
ApiCollect(p) ==
    /\ ~crashed
    /\ pc[p] = "idle"
    /\ Enter(p, NoParam, NoColl)
    /\ UNCHANGED <<exporterVars, target, lock, State, status, info, gauges, crashed>>

LockNoWait(p) ==
    /\ ~crashed
    /\ pc[p] = "collect"
    /\ lock' = p
    /\ pc' = [pc EXCEPT ![p] = "locked"]
    /\ UNCHANGED <<exporterVars, target, State, status, info, gauges, param, bound,
                   scr, gets, outcome, metrics, emitted, crashed>>

\* Collect: e.lock.Lock()
Lock(p) ==
    /\ ~crashed
    /\ pc[p] = "collect"
    /\ lock = NoProc
    /\ lock' = p
    /\ pc' = [pc EXCEPT ![p] = "locked"]
    /\ UNCHANGED <<exporterVars, target, State, status, info, gauges, param, bound,
                   scr, gets, outcome, metrics, emitted, crashed>>

CheckTargetEmitStatus(p) ==
    /\ ~crashed
    /\ pc[p] = "locked"
    /\ pc' = [pc EXCEPT ![p] = IF target = NoColl THEN "unlock" ELSE "scrape"]
    /\ emitted' = [emitted EXCEPT ![p] =
                      IF target = NoColl THEN <<Sample("status", <<>>, status)>> ELSE <<>>]
    /\ UNCHANGED <<exporterVars, target, lock, State, status, info, gauges, param,
                   bound, scr, gets, outcome, metrics, crashed>>

\* Collect: if e.target == nil { return }
CheckTarget(p) ==
    /\ ~crashed
    /\ pc[p] = "locked"
    /\ pc' = [pc EXCEPT ![p] = IF target = NoColl THEN "unlock" ELSE "scrape"]
    /\ UNCHANGED <<exporterVars, target, lock, State, status, info, gauges, param,
                   bound, scr, gets, outcome, metrics, emitted, crashed>>

\* Collect: e.target.scrape(), up to the call of client.Do.  A URL that
\* http.NewRequest rejects returns (nil, err) and leaves State alone.
ScrapeBegin(p) ==
    /\ ~crashed
    /\ pc[p] = "scrape"
    /\ scr' = [scr EXCEPT ![p] = target]
    /\ IF Collectors[target].reqOk
       THEN /\ gets' = [gets EXCEPT ![p] = gets[p] + 1]
            /\ pc' = [pc EXCEPT ![p] = "fetching"]
            /\ UNCHANGED outcome
       ELSE /\ outcome' = [outcome EXCEPT ![p] = "builderr"]
            /\ pc' = [pc EXCEPT ![p] = "scraped"]
            /\ UNCHANGED gets
    /\ UNCHANGED <<exporterVars, target, lock, State, status, info, gauges, param,
                   bound, metrics, emitted, crashed>>

StateAfterFetchKeep200(o) == o # "senderr"

StateAfterFetchDecoded(o) == o = "ok"

\* scrape: c.State after client.Do answered with outcome o
StateAfterFetch(o) == o \notin {"senderr", "non200"}

\* scrape: the *KibanaMetrics returned; json.Unmarshal of the body null into
\* &metrics sets the pointer to nil and reports no error
MetricsAfterFetch(o, m) == IF o = "ok" THEN m ELSE NilMetrics

\* scrape: the error returned
ErrAfterFetch(o) == o \notin {"ok", "nullbody"}

ScrapeReturnRetry(p, r) ==
    /\ ~crashed
    /\ pc[p] = "fetching"
    /\ State' = [State EXCEPT ![scr[p]] = StateAfterFetch(r.o)]
    /\ IF r.o = "senderr" /\ gets[p] < 2
       THEN /\ gets' = [gets EXCEPT ![p] = gets[p] + 1]
            /\ UNCHANGED <<outcome, metrics, pc>>
       ELSE /\ outcome' = [outcome EXCEPT ![p] = r.o]
            /\ metrics' = [metrics EXCEPT ![p] = MetricsAfterFetch(r.o, r.m)]
            /\ pc' = [pc EXCEPT ![p] = "scraped"]
            /\ UNCHANGED gets
    /\ UNCHANGED <<exporterVars, target, lock, status, info, gauges, param, bound,
                   scr, emitted, crashed>>

\* scrape, from the answer of client.Do to its return
ScrapeReturn(p, r) ==
    /\ ~crashed
    /\ pc[p] = "fetching"
    /\ State' = [State EXCEPT ![scr[p]] = StateAfterFetch(r.o)]
    /\ outcome' = [outcome EXCEPT ![p] = r.o]
    /\ metrics' = [metrics EXCEPT ![p] = MetricsAfterFetch(r.o, r.m)]
    /\ pc' = [pc EXCEPT ![p] = "scraped"]
    /\ UNCHANGED <<exporterVars, target, lock, status, info, gauges, param, bound,
                   scr, gets, emitted, crashed>>

StatusValNoLower(st) == IF st = <<"g","r","e","e","n">> THEN 1 ELSE 0

\* parseMetrics: statusVal
StatusVal(st) == IF ToLower(st) = <<"g","r","e","e","n">> THEN 1 ELSE 0

\* parseMetrics: the label values of the info sample
InfoLabels(m) == <<m.Version, FormatInt(m.Build)>>

\* parseMetrics: the values set on the eleven plain gauges
GaugeValues(m) ==
    << Float64(m.ConcurrentConnections), m.UptimeInMillis, Float64(m.TotalInBytes),
       Float64(m.UsedInBytes), m.Load1m, m.Load5m, m.Load15m, m.AvgInMillis,
       m.MaxInMillis, Float64(m.Disconnects), Float64(m.Total) >>

\* Collect after scrape: parseMetrics when e.target.State, else status 0.
\* parseMetrics dereferences m: a nil m panics, the deferred Unlock runs and
\* the panic, raised in the registry's collect goroutine, ends the process.
MapStep(p) ==
    /\ ~crashed
    /\ pc[p] = "scraped"
    /\ IF State[target]
       THEN IF metrics[p].isNil
            THEN /\ pc' = [pc EXCEPT ![p] = "panicked"]
                 /\ lock' = NoProc
                 /\ crashed' = TRUE
                 /\ UNCHANGED <<status, info, gauges>>
            ELSE /\ status' = StatusVal(metrics[p].State)
                 /\ IF StatusVal(metrics[p].State) = 1
                    THEN /\ info' = info \cup {InfoLabels(metrics[p])}
                         /\ gauges' = GaugeValues(metrics[p])
                    ELSE UNCHANGED <<info, gauges>>
                 /\ pc' = [pc EXCEPT ![p] = "send"]
                 /\ UNCHANGED <<lock, crashed>>
       ELSE /\ status' = 0
            /\ pc' = [pc EXCEPT ![p] = "send"]
            /\ UNCHANGED <<info, gauges, lock, crashed>>
    /\ UNCHANGED <<exporterVars, target, State, param, bound, scr, gets, outcome,
                   metrics, emitted>>

SecondarySamplesInfoLast(ord) ==
    [i \in DOMAIN SecondaryNames |-> Sample(SecondaryNames[i], <<>>, gauges[i])]
    \o [i \in DOMAIN ord |-> Sample("info", ord[i], 1)]

\* send: the samples after status when e.target.State, the info vector in
\* the map order ord
SecondarySamples(ord) ==
    [i \in DOMAIN ord |-> Sample("info", ord[i], 1)]
    \o [i \in DOMAIN SecondaryNames |-> Sample(SecondaryNames[i], <<>>, gauges[i])]

\* Collect: e.send(ch)
Send(p) ==
    /\ ~crashed
    /\ pc[p] = "send"
    /\ \E ord \in Orderings(info) :
          emitted' = [emitted EXCEPT ![p] =
                         <<Sample("status", <<>>, status)>>
                         \o (IF State[target] THEN SecondarySamples(ord) ELSE <<>>)]
    /\ pc' = [pc EXCEPT ![p] = "unlock"]
    /\ UNCHANGED <<exporterVars, target, lock, State, status, info, gauges, param,
                   bound, scr, gets, outcome, metrics, crashed>>

\* Collect: the deferred e.lock.Unlock() on return; the request is over and
\* its locals are gone
Unlock(p) ==
    /\ ~crashed
    /\ pc[p] = "unlock"
    /\ lock' = NoProc
    /\ pc' = [pc EXCEPT ![p] = "idle"]
    /\ param' = [param EXCEPT ![p] = NoParam]
    /\ bound' = [bound EXCEPT ![p] = NoColl]
    /\ scr' = [scr EXCEPT ![p] = NoColl]
    /\ gets' = [gets EXCEPT ![p] = 0]
    /\ outcome' = [outcome EXCEPT ![p] = "none"]
    /\ metrics' = [metrics EXCEPT ![p] = NilMetrics]
    /\ emitted' = [emitted EXCEPT ![p] = <<>>]
    /\ UNCHANGED <<exporterVars, target, State, status, info, gauges, crashed>>

\* the steps of Collect against targets that answer with the payloads P
CollectStep(p, P) ==
    \/ Lock(p)
    \/ CheckTarget(p)
    \/ ScrapeBegin(p)
    \/ \E r \in FetchResults(P) : ScrapeReturn(p, r)
    \/ MapStep(p)
    \/ Send(p)
    \/ Unlock(p)

\* the server of main.go
Next ==
    \E p \in Procs :
        \/ \E t \in TargetParams : handler(p, t)
        \/ CollectStep(p, Payloads)

Spec == Init /\ [][Next]_vars

\* the exporter package under any caller
NextApi ==
    \E p \in Procs :
        \/ \E c \in DOMAIN Collectors : ApiSetTarget(p, c)
        \/ ApiCollect(p)
        \/ CollectStep(p, FirstPayloads)

SpecApi == Init /\ [][NextApi]_vars

\* the server of main.go under the scheduling Go gives it: a request that can
\* take a step of Collect takes it (every fetch returns), and sync.Mutex
\* hands the lock to a goroutine that keeps waiting for it
SpecFair ==
    /\ Init
    /\ [][Next]_vars
    /\ \A p \in Procs : WF_vars(CollectStep(p, Payloads)) /\ SF_vars(Lock(p))

\* ------------------------------------ TestConnection and WaitForConnection
connUnchanged ==
    UNCHANGED <<namespace, Collectors, built, KibanaByName, target, lock, status,
                info, gauges, pc, param, bound, scr, gets, outcome, metrics,
                emitted, crashed, cfg, boot>>

\* a caller calls c.TestConnection(logger)
TestConnection(c) ==
    /\ ~crashed
    /\ conn.pc = "idle"
    /\ conn' = [conn EXCEPT !.pc = "test", !.c = c, !.loop = FALSE]
    /\ UNCHANGED State
    /\ connUnchanged

\* a caller calls c.WaitForConnection(logger), which calls TestConnection
WaitForConnection(c) ==
    /\ ~crashed
    /\ conn.pc = "idle"
    /\ conn' = [conn EXCEPT !.pc = "test", !.c = c, !.loop = TRUE]
    /\ UNCHANGED State
    /\ connUnchanged

\* TestConnection: c.scrape(), up to the call of client.Do; a URL that
\* http.NewRequest rejects returns an error at once
TestScrapeBegin ==
    /\ ~crashed
    /\ conn.pc = "test"
    /\ conn' = IF Collectors[conn.c].reqOk
               THEN [conn EXCEPT !.pc = "fetching"]
               ELSE [conn EXCEPT !.pc = "tested", !.result = FALSE, !.o = "builderr"]
    /\ UNCHANGED State
    /\ connUnchanged

\* TestConnection: c.scrape() from the answer of client.Do on, then
\* return err == nil; scrape writes c.State, no lock in reach.  Once the
\* target is up, every fetch succeeds and decodes.
TestScrapeReturn(r) ==
    /\ ~crashed
    /\ conn.pc = "fetching"
    /\ conn.up => r.o = "ok"
    /\ State' = [State EXCEPT ![conn.c] = StateAfterFetch(r.o)]
    /\ conn' = [conn EXCEPT !.pc = "tested", !.result = ~ErrAfterFetch(r.o), !.o = r.o]
    /\ connUnchanged

\* TestConnection returns to a caller other than WaitForConnection
TestReturn ==
    /\ ~crashed
    /\ conn.pc = "tested"
    /\ ~conn.loop
    /\ conn' = [IdleConn EXCEPT !.up = conn.up]
    /\ UNCHANGED State
    /\ connUnchanged

WaitDecideGiveUp ==
    /\ ~crashed
    /\ conn.pc = "tested"
    /\ conn.loop
    /\ conn' = IF conn.result \/ conn.failed
               THEN [conn EXCEPT !.pc = "returned"]
               ELSE [conn EXCEPT !.pc = "sleeping", !.failed = TRUE]
    /\ UNCHANGED State
    /\ connUnchanged

\* WaitForConnection: return when TestConnection was true, else sleep and
\* go round the loop
WaitDecide ==
    /\ ~crashed
    /\ conn.pc = "tested"
    /\ conn.loop
    /\ conn' = IF conn.result
               THEN [conn EXCEPT !.pc = "returned"]
               ELSE [conn EXCEPT !.pc = "sleeping", !.failed = TRUE]
    /\ UNCHANGED State
    /\ connUnchanged

\* WaitForConnection: time.Sleep(10 * time.Second) is over; continue
WaitSleep ==
    /\ ~crashed
    /\ conn.pc = "sleeping"
    /\ conn' = [conn EXCEPT !.pc = "test"]
    /\ UNCHANGED State
    /\ connUnchanged

\* the target comes up: from now on it answers every fetch with a payload
\* that decodes
TargetUp ==
    /\ ~conn.up
    /\ conn' = [conn EXCEPT !.up = TRUE]
    /\ UNCHANGED State
    /\ connUnchanged

\* the steps of a running WaitForConnection
WaitStep ==
    \/ TestScrapeBegin
    \/ \E r \in FetchResults(FirstPayloads) : TestScrapeReturn(r)
    \/ WaitDecide
    \/ WaitSleep

\* one caller of WaitForConnection against a target that may come up
NextWait ==
    \/ \E c \in DOMAIN Collectors : WaitForConnection(c)
    \/ WaitStep
    \/ TargetUp

\* the loop of WaitForConnection keeps running and every fetch returns
SpecWait == Init /\ [][NextWait]_vars /\ WF_vars(WaitStep)

\* the exporter package under any caller, one of them calling TestConnection
NextConn ==
    \/ NextApi
    \/ \E c \in DOMAIN Collectors : TestConnection(c)
    \/ TestScrapeBegin
    \/ \E r \in FetchResults(FirstPayloads) : TestScrapeReturn(r)
    \/ TestReturn

SpecConn == Init /\ [][NextConn]_vars

\* ------------------------------------------------- NewExporter on its own
NsChars == {"k", "9", "-"}

Namespaces == SeqsUpTo(NsChars, 0, MaxNsLen)

\* lists a caller can pass: any names, repeated or not, and nil elements
CtorLists ==
    SeqsUpTo({ Collector(n, TRUE) : n \in TargetNames } \cup {NilCollector},
             0, MaxCtorColls)

InitNew ==
    /\ namespace \in Namespaces
    /\ Collectors \in CtorLists
    /\ built = "no"
    /\ KibanaByName = EmptyMap
    /\ State = [c \in DOMAIN Collectors |-> FALSE]
    /\ InitExporter
    /\ InitLocals
    /\ cfg = IdleCfg
    /\ boot = IdleBoot
    /\ conn = IdleConn

CallNewExporter ==
    /\ built = "no"
    /\ built' = NewExporter(namespace, Collectors).result
    /\ KibanaByName' = NewExporter(namespace, Collectors).KibanaByName
    /\ UNCHANGED <<namespace, Collectors, target, lock, State, status, info, gauges,
                   pc, param, bound, scr, gets, outcome, metrics, emitted, crashed,
                   cfg, boot, conn>>

NextNew == CallNewExporter

SpecNew == InitNew /\ [][NextNew]_vars

\* ------------------------------------------------- a profile on its own
\* bound on the calls of KibanaConfig.check on one profile
MaxChecks == 2

\* a profile as read from a configuration file or as main.go builds it for
\* the URL path; nothing applied to it yet
InitCfg ==
    /\ namespace = KibanaNamespace
    /\ Collectors = <<>>
    /\ built = "no"
    /\ KibanaByName = EmptyMap
    /\ State = <<>>
    /\ InitExporter
    /\ InitLocals
    /\ cfg \in { [IdleCfg EXCEPT !.op = "raw", !.kibana = k, !.prev = k] : k \in RawConfigs }
    /\ boot = IdleBoot
    /\ conn = IdleConn

cfgUnchanged ==
    UNCHANGED <<namespace, Collectors, built, KibanaByName, target, lock, State,
                status, info, gauges, pc, param, bound, scr, gets, outcome,
                metrics, emitted, crashed, boot, conn>>

\* c.check(), as KibanaConfigs.check calls it on each profile
CfgCheck ==
    /\ cfg.op \in {"raw", "check"}
    /\ cfg.nchecks < MaxChecks
    /\ cfg' = [cfg EXCEPT !.op = "check", !.via = "check", !.prev = cfg.kibana,
                          !.kibana = check(cfg.kibana).c,
                          !.err = check(cfg.kibana).err,
                          !.nchecks = cfg.nchecks + 1]
    /\ cfgUnchanged

\* kibana.SetDefault(uri, skipTls, wait) on the profile main.go and the
\* tests build: a name and credentials, nothing else
CfgSetDefault(u, skipTls, wait) ==
    /\ cfg.op = "raw"
    /\ cfg.kibana \in FreshConfigs
    /\ cfg' = [cfg EXCEPT !.op = "setdefault", !.via = "setdefault",
                          !.prev = cfg.kibana,
                          !.kibana = SetDefault(cfg.kibana, u, skipTls, wait),
                          !.url = u, !.skipTls = skipTls, !.waitArg = wait]
    /\ cfgUnchanged

\* NewCollector(&kibana, logger) on a profile that passed check or SetDefault
CfgNewCollector ==
    /\ cfg.op \in {"check", "setdefault"}
    /\ ~cfg.err
    /\ cfg' = [cfg EXCEPT !.op = "collector", !.collector = NewCollector(cfg.kibana)]
    /\ cfgUnchanged

NextCfg ==
    \/ CfgCheck
    \/ \E u \in UrlInputs, skipTls \in BOOLEAN, wait \in BOOLEAN :
           CfgSetDefault(u, skipTls, wait)
    \/ CfgNewCollector

SpecCfg == InitCfg /\ [][NextCfg]_vars

\* ------------------------------------------------------ main, the start-up
\* bound on the profiles of a configuration file
MaxKibanas == 2

\* names a configuration file gives its profiles: none, or one of two
FileNames == { <<>>, TargetName(1), TargetName(2) }

\* profiles of a configuration file: a name or none, wait or not, the rest
\* left to the defaults
FileConfigs ==
    { KibanaConfig(n, <<>>, <<>>, <<>>, <<>>, <<>>, <<>>, wt) :
        n \in FileNames, wt \in { <<>>, <<"y","e","s">> } }

\* --config-file: not given, given and not readable as YAML, or given with
\* a list of profiles
ConfigFiles ==
    { [given |-> FALSE, readable |-> FALSE, Kibanas |-> <<>>],
      [given |-> TRUE, readable |-> FALSE, Kibanas |-> <<>>] }
    \cup { [given |-> TRUE, readable |-> TRUE, Kibanas |-> ks] :
             ks \in SeqsUpTo(FileConfigs, 0, MaxKibanas) }

\* --kibana.uri: not given, or a URL with or without a port
UriFlags == { <<>>, <<"h","t","t","p","s",":","/","/","e","x","a","m","p","l","e",".","o","r","g",":","9","2","0","1">>, <<"h","t","t","p","s",":","/","/","e","x","a","m","p","l","e",".","o","r","g">> }

\* KibanaConfigs.check: an error for an empty list or at the first profile
\* whose check fails, else every profile checked
KibanaConfigs_check(ks) ==
    [ Kibanas |-> [i \in DOMAIN ks |-> check(ks[i]).c],
      err |-> Len(ks) = 0 \/ \E i \in DOMAIN ks : check(ks[i]).err ]

\* config.Load: (nil, err) or (&kibanas, nil)
Load(file) ==
    IF ~file.readable \/ KibanaConfigs_check(file.Kibanas).err
    THEN [nil |-> TRUE, Kibanas |-> <<>>, err |-> TRUE]
    ELSE [nil |-> FALSE, Kibanas |-> KibanaConfigs_check(file.Kibanas).Kibanas,
          err |-> FALSE]

\* main before its first statement: the flags parsed, kibanas nil, no
\* connection test made
BootInputs ==
    { [ step |-> "start", configFile |-> f, kibanaURI |-> u, kibanaSkipTLS |-> FALSE,
        wait |-> w, dry_run |-> dr,
        kibanas |-> [nil |-> TRUE, Kibanas |-> <<>>], connected |-> {} ] :
        f \in ConfigFiles, u \in UriFlags, w \in BOOLEAN, dr \in BOOLEAN }

InitMain ==
    /\ namespace = KibanaNamespace
    /\ Collectors = <<>>
    /\ built = "no"
    /\ KibanaByName = EmptyMap
    /\ State = <<>>
    /\ InitExporter
    /\ InitLocals
    /\ cfg = IdleCfg
    /\ boot \in BootInputs
    /\ conn = IdleConn

bootOnly ==
    UNCHANGED <<namespace, Collectors, built, KibanaByName, target, lock, State,
                status, info, gauges, pc, param, bound, scr, gets, outcome,
                metrics, emitted, cfg, conn>>

\* main: kibanas, err = config.Load(*configFile) when a file is given;
\* os.Exit(1) on its error
MainLoad ==
    /\ boot.step = "start"
    /\ boot' = IF ~boot.configFile.given
               THEN [boot EXCEPT !.step = "loaded"]
               ELSE IF Load(boot.configFile).err
               THEN [boot EXCEPT !.step = "exit"]
               ELSE [boot EXCEPT !.step = "loaded",
                                 !.kibanas = [nil |-> FALSE,
                                              Kibanas |-> Load(boot.configFile).Kibanas]]
    /\ UNCHANGED crashed
    /\ bootOnly

\* main: with --kibana.uri, a profile named default made by SetDefault
\* replaces the list of kibanas; the assignment dereferences kibanas, which
\* is nil when no file was loaded
MainURI ==
    /\ boot.step = "loaded"
    /\ boot' = IF boot.kibanaURI = <<>>
               THEN [boot EXCEPT !.step = "uri"]
               ELSE IF boot.kibanas.nil
               THEN [boot EXCEPT !.step = "panic"]
               ELSE [boot EXCEPT !.step = "uri",
                                 !.kibanas.Kibanas =
                                     << SetDefault(KibanaConfig(TargetName(1), <<>>, <<>>, <<>>,
                                                                <<>>, <<>>, <<>>, <<>>),
                                                   boot.kibanaURI, boot.kibanaSkipTLS,
                                                   boot.wait) >>]
    /\ crashed' = (boot.kibanaURI # <<>> /\ boot.kibanas.nil)
    /\ bootOnly

\* main: os.Exit(1) when there is no profile
MainCheckAny ==
    /\ boot.step = "uri"
    /\ boot' = IF boot.kibanas.nil \/ Len(boot.kibanas.Kibanas) = 0
               THEN [boot EXCEPT !.step = "exit"]
               ELSE [boot EXCEPT !.step = "checked"]
    /\ UNCHANGED crashed
    /\ bootOnly

\* main: one NewCollector per profile, its error only logged; the URLs of
\* FileConfigs and UriFlags are ones http.NewRequest accepts
MainCollectors ==
    /\ boot.step = "checked"
    /\ boot' = [boot EXCEPT !.step = "collectors"]
    /\ Collectors' = [i \in DOMAIN boot.kibanas.Kibanas |->
                         Collector(boot.kibanas.Kibanas[i].Name, TRUE)]
    /\ State' = [i \in DOMAIN boot.kibanas.Kibanas |-> FALSE]
    /\ UNCHANGED <<namespace, built, KibanaByName, target, lock, status, info,
                   gauges, pc, param, bound, scr, gets, outcome, metrics,
                   emitted, crashed, cfg, conn>>

\* main: exporter, err := exporter.NewExporter(namespace, collectors, ...)
MainNewExporter ==
    /\ boot.step = "collectors"
    /\ boot' = [boot EXCEPT !.step = "exporter"]
    /\ built' = NewExporter(namespace, Collectors).result
    /\ KibanaByName' = NewExporter(namespace, Collectors).KibanaByName
    /\ UNCHANGED <<namespace, Collectors, target, lock, State, status, info,
                   gauges, pc, param, bound, scr, gets, outcome, metrics,
                   emitted, crashed, cfg, conn>>

\* main under --dry-run: SetTarget(collectors[0]), then registry.Gather
\* calls Collect
MainDryRun ==
    /\ boot.step = "exporter"
    /\ boot.dry_run
    /\ boot' = [boot EXCEPT !.step = "gather"]
    /\ SetTarget(1)
    /\ Enter(1, NoParam, 1)
    /\ UNCHANGED <<namespace, Collectors, built, KibanaByName, lock, State,
                   status, info, gauges, crashed, cfg, conn>>

\* main under --dry-run: the metrics written, os.Exit(1); the connection
\* tests that stood before it are commented out
MainDryExit ==
    /\ boot.step = "gather"
    /\ pc[1] = "idle"
    /\ boot' = [boot EXCEPT !.step = "exit"]
    /\ UNCHANGED crashed
    /\ bootOnly

\* main: MustRegister, the two handlers, http.ListenAndServe
MainListen ==
    /\ boot.step = "exporter"
    /\ ~boot.dry_run
    /\ boot' = [boot EXCEPT !.step = "listening"]
    /\ UNCHANGED crashed
    /\ bootOnly

NextMain ==
    \/ MainLoad
    \/ MainURI
    \/ MainCheckAny
    \/ MainCollectors
    \/ MainNewExporter
    \/ MainDryRun
    \/ CollectStep(1, FirstPayloads)
    \/ MainDryExit
    \/ MainListen

\* main from its first statement to ListenAndServe or to its exit
SpecMain == InitMain /\ [][NextMain]_vars

\* ------------------------------------------------------------- properties
StatusSample(v) == Sample("status", <<>>, v)

\* the body of Collect has run to its end; only the deferred Unlock is left
CycleEnded(p) == pc[p] = "unlock"

\* the cycle is over, by return or by panic
CycleOver(p) == pc[p] \in {"unlock", "panicked"}

\* a sample other than status was written
HasSecondary(e) == \E i \in DOMAIN e : e[i].name # "status"

\* "green" in any mix of cases, spelled out character by character
IsGreenAnyCase(st) ==
    /\ Len(st) = 5
    /\ st[1] \in {"g", "G"}
    /\ st[2] \in {"r", "R"}
    /\ st[3] \in {"e", "E"}
    /\ st[4] \in {"e", "E"}
    /\ st[5] \in {"n", "N"}

\* C1: Collect never panics, whatever the upstream fetch produced, and the
\* process is never ended by a collection cycle.
C1_CollectNeverPanics ==
    /\ ~crashed
    /\ \A p \in Procs : pc[p] # "panicked"

\* C2: a cycle whose target answered 200 with a body that does not decode
\* ends normally having emitted exactly the status gauge, at 0.
C2_DecodeFailureStatusOnly ==
    \A p \in Procs :
        (outcome[p] = "badjson" /\ CycleOver(p))
            => /\ pc[p] = "unlock"
               /\ emitted[p] = <<StatusSample(0)>>

\* C3: a cycle whose request could not be built or sent, or was answered
\* with a non-200 status, never panics, and at its end the scraped collector's
\* State is false and exactly one sample has been emitted: status at 0.
C3_TransportFailureStatusZero ==
    \A p \in Procs :
        outcome[p] \in {"builderr", "senderr", "non200"}
            => /\ pc[p] # "panicked"
               /\ CycleEnded(p) => /\ ~State[scr[p]]
                                   /\ ~State[target]
                                   /\ emitted[p] = <<StatusSample(0)>>

\* C3 witness: such a cycle has ended after an earlier healthy cycle left
\* non-zero values in the gauges.
C3_Witness ==
    \E p \in Procs :
        /\ CycleEnded(p)
        /\ outcome[p] \in {"senderr", "non200"}
        /\ gets[p] = 1
        /\ gauges # ZeroGauges
        /\ info # {}
        /\ emitted[p] = <<StatusSample(0)>>

\* C4: in a cycle whose payload was fetched and decoded, samples other than
\* status are emitted if and only if the emitted status is 1.
C4_SecondaryIffStatusOne ==
    \A p \in Procs :
        (outcome[p] = "ok" /\ CycleEnded(p))
            => (HasSecondary(emitted[p]) <=> emitted[p][1].value = 1)

\* C5: after the mapping of a decoded payload the status gauge is 1 if the
\* payload's state is "green" in any mix of cases, and 0 for any other string.
C5_StatusOneIffGreen ==
    \A p \in Procs :
        (outcome[p] = "ok" /\ pc[p] \in {"send", "unlock"})
            => status = (IF IsGreenAnyCase(metrics[p].State) THEN 1 ELSE 0)

\* C5 witness: a payload with state "Green" has been mapped to status 1.
C5_Witness ==
    \E p \in Procs :
        /\ outcome[p] = "ok"
        /\ pc[p] = "send"
        /\ metrics[p].State = <<"G","r","e","e","n">>
        /\ status = 1

InCycle(p) == pc[p] \in {"locked", "scrape", "fetching", "scraped", "send", "unlock"}

\* C6: at most one request is between Lock and Unlock of Collect, and that
\* request holds the lock at every step from before the scrape, during the
\* fetch, until after the last sample is written.
C6_OneCycleAtATime ==
    /\ \A p, q \in Procs : (InCycle(p) /\ InCycle(q)) => p = q
    /\ \A p \in Procs : InCycle(p) => lock = p

\* C6 witness: one request is blocked on the lock while another is in the
\* network fetch.
C6_Witness ==
    \E p, q \in Procs :
        /\ pc[p] = "fetching"
        /\ pc[q] = "collect"
        /\ lock = p

\* C7: the cycle of a request that called SetTarget(c) scrapes c.
C7_ScrapesBoundCollector ==
    \A p \in Procs :
        (bound[p] # NoColl /\ scr[p] # NoColl) => scr[p] = bound[p]

\* C8: the cycle of a request scrapes the collector its target parameter
\* names when it names a configured one, and the first collector otherwise.
C8_ScrapesNamedTarget ==
    \A p \in Procs :
        scr[p] # NoColl
            => scr[p] = (IF FindTarget(param[p]) # NoColl
                         THEN FindTarget(param[p]) ELSE 1)

\* C9 as claimed: a cycle run while no target was ever bound performs no
\* fetch and emits exactly the status gauge, at zero.
C9_UnboundEmitsZeroStatus ==
    \A p \in Procs :
        (CycleEnded(p) /\ target = NoColl)
            => /\ gets[p] = 0
               /\ emitted[p] = <<StatusSample(0)>>

\* C9 as amended: a cycle run while no target was ever bound performs no
\* fetch, calls no scrape and emits nothing, the status gauge included.
C9_UnboundEmitsNothing ==
    \A p \in Procs :
        (CycleEnded(p) /\ target = NoColl)
            => /\ gets[p] = 0
               /\ scr[p] = NoColl
               /\ emitted[p] = <<>>

\* C9 witness: a cycle has ended with no target ever bound.
C9_Witness ==
    \E p \in Procs :
        /\ CycleEnded(p)
        /\ target = NoColl
        /\ bound[p] = NoColl

\* a namespace the metrics library accepts as the start of a metric name
ValidNamespace(ns) ==
    /\ Len(ns) > 0
    /\ ns[1] \notin {"0","1","2","3","4","5","6","7","8","9"}
    /\ \A i \in DOMAIN ns : ns[i] # "-"

\* C10: NewExporter called with an empty or invalid namespace returns an
\* error, for any list of collectors.
C10_BadNamespaceRejected ==
    (built # "no" /\ ~ValidNamespace(namespace)) => built = "error"

\* C12 as claimed: every cycle with a bound target has issued exactly one
\* upstream GET when it is over, whatever the outcome.
C12_ExactlyOneGet ==
    \A p \in Procs :
        (CycleOver(p) /\ target # NoColl) => gets[p] = 1

\* C12 as amended: a cycle never issues more than one upstream GET, and when
\* it is over it has issued exactly one if http.NewRequest accepted the
\* target's URL and none if it did not.
C12_OneGetWhenBuildable ==
    \A p \in Procs :
        /\ gets[p] <= 1
        /\ (CycleOver(p) /\ scr[p] # NoColl)
              => gets[p] = (IF Collectors[scr[p]].reqOk THEN 1 ELSE 0)
        /\ (CycleOver(p) /\ target # NoColl) => scr[p] # NoColl

\* C12 witness: a cycle whose fetch failed is over after one GET, after an
\* earlier cycle had obtained a healthy payload.
C12_Witness ==
    \E p \in Procs :
        /\ CycleEnded(p)
        /\ outcome[p] = "senderr"
        /\ gets[p] = 1
        /\ gauges # ZeroGauges

\* the names of the samples of e, in order
NamesOf(e) == [i \in DOMAIN e |-> e[i].name]

\* C13: what a cycle has written is nothing yet, or status alone, or status
\* followed by the info samples and then the eleven gauges in their fixed
\* order; nothing is ever written before status.
C13_FixedEmissionOrder ==
    \A p \in Procs :
        \/ emitted[p] = <<>>
        \/ NamesOf(emitted[p]) = <<"status">>
        \/ \E k \in 0..NumSamples :
              NamesOf(emitted[p]) =
                  <<"status">> \o [i \in 1..k |-> "info"] \o SecondaryNames

\* C13 witness: a cycle has written status, an info sample and the eleven
\* gauges.
C13_Witness ==
    \E p \in Procs :
        /\ CycleEnded(p)
        /\ Len(emitted[p]) = 13
        /\ emitted[p][2].name = "info"

\* C19: when a call of scrape has returned, State of its collector is true
\* exactly if the request was sent and answered with status 200 (whether or
\* not the body could then be read and decoded); a request that could not be
\* built, a send error and a non-200 answer leave it false.
C19_StateReflectsLastFetch ==
    \A p \in Procs :
        pc[p] = "scraped"
            => State[scr[p]] = (outcome[p] \in {"readerr", "badjson", "nullbody", "ok"})

\* C19 witness: a call answered with a non-200 status has returned with State
\* false, after an earlier call had set it true.
C19_Witness ==
    \E p \in Procs :
        /\ pc[p] = "scraped"
        /\ outcome[p] = "non200"
        /\ info # {}
        /\ ~State[scr[p]]

\* ------------------------------------------------- properties of profiles
\* base64 of user:pass for the credentials of Usernames and Passwords, as
\* RFC 4648 gives it
KnownBase64(user, pass) ==
    IF user = <<"k","i","b","a","n","a","u">> /\ pass = <<"k","i","b","a","n","a","p">>
    THEN <<"a","2","l","i","Y","W","5","h","d","T","p","r","a","W","J","h","b","m","F","w">>
    ELSE
    IF user = <<"k","i","b","a","n","a","u">> /\ pass = <<"c">>
    THEN <<"a","2","l","i","Y","W","5","h","d","T","p","j">>
    ELSE
    IF user = <<"a","b">> /\ pass = <<"k","i","b","a","n","a","p">>
    THEN <<"Y","W","I","6","a","2","l","i","Y","W","5","h","c","A","=","=">>
    ELSE
    IF user = <<"a","b">> /\ pass = <<"c">>
    THEN <<"Y","W","I","6","Y","w","=","=">>
    ELSE <<>>

\* C11: the auth header NewCollector computes is empty when the username or
\* the password is empty and "Basic " followed by base64(username:password)
\* when both are present, whatever the scheme and the skip flag, and
\* NewCollector returns no error
C11_AuthHeader ==
    cfg.op = "collector" =>
        /\ ~cfg.collector.err
        /\ cfg.collector.authHeader =
              IF cfg.kibana.Username = <<>> \/ cfg.kibana.Password = <<>>
              THEN <<>>
              ELSE <<"B","a","s","i","c"," ">>
                   \o KnownBase64(cfg.kibana.Username, cfg.kibana.Password)

\* a collector for http with skip-tls requested and both credentials
C11_Witness ==
    /\ cfg.op = "collector"
    /\ cfg.kibana.Protocol = <<"h","t","t","p">>
    /\ SkipTls(cfg.kibana)
    /\ cfg.kibana.Username = <<"k","i","b","a","n","a","u">>
    /\ cfg.kibana.Password = <<"k","i","b","a","n","a","p">>
    /\ cfg.collector.authHeader = <<"B","a","s","i","c"," ">> \o <<"a","2","l","i","Y","W","5","h","d","T","p","r","a","W","J","h","b","m","F","w">>

\* the two cases of a lower-case character (digits have one)
BothCases(c) == {c} \cup { UpperChars[i] : i \in { k \in DOMAIN LowerChars : LowerChars[k] = c } }

\* v is word in some mix of cases
SpelledAs(v, word) ==
    Len(v) = Len(word) /\ \A i \in DOMAIN word : v[i] \in BothCases(word[i])

\* the words the specification lists for true and for false
TrueWords == { <<"y","e","s">>, <<"t","r","u","e">>, <<"1">> }
FalseWords == { <<"n","o">>, <<"f","a","l","s","e">>, <<"0">> }

Means(v, words) == \E w \in words : SpelledAs(v, w)

\* a first check of a named profile has returned
FirstCheckDone == cfg.op = "check" /\ cfg.nchecks = 1 /\ cfg.prev.Name # <<>>

\* C16 as stated: skip-tls and wait accept exactly yes, no, true, false, 1
\* and 0 in any case (absent meaning false); check fails for every other
\* non-empty value
C16_SixWordsOnly ==
    FirstCheckDone =>
        (~cfg.err <=>
            /\ cfg.prev.Skip = <<>> \/ Means(cfg.prev.Skip, TrueWords \cup FalseWords)
            /\ cfg.prev.Wait = <<>> \/ Means(cfg.prev.Wait, TrueWords \cup FalseWords))

\* C16 amended: the accepted values are yes, no, true, false, t, f, 1 and 0
\* in any case (absent meaning false); check fails for every other non-empty
\* value, and on success skip and wait hold the meaning of the word
C16_EightWords ==
    FirstCheckDone =>
        /\ ~cfg.err <=>
            /\ cfg.prev.Skip = <<>>
                 \/ Means(cfg.prev.Skip, TrueWords \cup FalseWords \cup {<<"t">>, <<"f">>})
            /\ cfg.prev.Wait = <<>>
                 \/ Means(cfg.prev.Wait, TrueWords \cup FalseWords \cup {<<"t">>, <<"f">>})
        /\ ~cfg.err =>
            /\ SkipTls(cfg.kibana) <=> Means(cfg.prev.Skip, TrueWords \cup {<<"t">>})
            /\ WaitKibana(cfg.kibana) <=> Means(cfg.prev.Wait, TrueWords \cup {<<"t">>})

\* skip-tls: T was accepted as true, with wait: F as false
C16_Witness ==
    /\ FirstCheckDone
    /\ cfg.prev.Skip = <<"T">>
    /\ cfg.prev.Wait = <<"F">>
    /\ ~cfg.err
    /\ SkipTls(cfg.kibana)
    /\ ~WaitKibana(cfg.kibana)

\* C17: for a <<"h","t","t","p","s",":","/","/","e","x","a","m","p","l","e",".","o","r","g",":","9","2","0","1">> scheme://host:port with scheme http or https, a host
\* without ":" and a numeric port, SetDefault leaves a profile whose
\* Protocol, Host and Port are that scheme, host and port and whose Url()
\* is the <<"h","t","t","p","s",":","/","/","e","x","a","m","p","l","e",".","o","r","g",":","9","2","0","1">> given
C17_UrlRoundTrip ==
    cfg.op = "setdefault" =>
        \A sch \in Schemes, h \in Hosts, po \in Ports :
            cfg.url = UrlOf(sch, h, po) =>
                /\ cfg.kibana.Protocol = sch
                /\ cfg.kibana.Host = h
                /\ cfg.kibana.Port = po
                /\ Url(cfg.kibana) = cfg.url

\* https://example.org:9201 read back as https, example.org and 9201
C17_Witness ==
    /\ cfg.op = "setdefault"
    /\ cfg.url = <<"h","t","t","p","s",":","/","/","e","x","a","m","p","l","e",".","o","r","g",":","9","2","0","1">>
    /\ cfg.kibana.Protocol = <<"h","t","t","p","s">>
    /\ cfg.kibana.Host = <<"e","x","a","m","p","l","e",".","o","r","g">>
    /\ cfg.kibana.Port = <<"9","2","0","1">>
    /\ Url(cfg.kibana) = <<"h","t","t","p","s",":","/","/","e","x","a","m","p","l","e",".","o","r","g",":","9","2","0","1">>

\* C18: for a named profile, whatever of protocol, host, port, skip-tls and
\* wait is present, a second KibanaConfig.check leaves the profile the first
\* one left, derived <<"h","t","t","p",":","/","/","l","o","c","a","l","h","o","s","t",":","5","6","0","1">> and skip and wait booleans included
C18_CheckIdempotent ==
    (cfg.op = "check" /\ cfg.nchecks >= 2 /\ cfg.prev.Name # <<>>) =>
        /\ cfg.kibana = cfg.prev
        /\ Url(cfg.kibana) = Url(cfg.prev)
        /\ SkipTls(cfg.kibana) = SkipTls(cfg.prev)
        /\ WaitKibana(cfg.kibana) = WaitKibana(cfg.prev)

\* a profile with only a name and skip-tls: yes, checked twice
C18_Witness ==
    /\ cfg.op = "check"
    /\ cfg.nchecks = 2
    /\ ~cfg.err
    /\ cfg.kibana.Skip = <<"y","e","s">>
    /\ SkipTls(cfg.kibana)
    /\ Url(cfg.kibana) = <<"h","t","t","p",":","/","/","l","o","c","a","l","h","o","s","t",":","5","6","0","1">>
    /\ cfg.kibana = cfg.prev

\* C20: for a profile built from an https URL, with a port (https://host:port)
\* or without (https://host), SetDefault sets the scheme to https and
\* NewCollector builds a client with a TLS policy whose skip-verification
\* setting is the requested skip flag
C20_HttpsUrlGetsTlsPolicy ==
    (cfg.op = "collector" /\ cfg.via = "setdefault") =>
        \A h \in Hosts :
            (\/ cfg.url = <<"h","t","t","p","s",":","/","/">> \o h
             \/ \E po \in Ports : cfg.url = UrlOf(<<"h","t","t","p","s">>, h, po)) =>
                /\ cfg.kibana.Protocol = <<"h","t","t","p","s">>
                /\ cfg.collector.tls
                /\ cfg.collector.InsecureSkipVerify = cfg.skipTls

\* C14: when the wait flag is set for a target, start-up does not reach
\* ListenAndServe until a connection test against that target has returned
\* true
C14_WaitsBeforeListening ==
    boot.step = "listening" =>
        \A i \in DOMAIN boot.kibanas.Kibanas :
            WaitKibana(boot.kibanas.Kibanas[i]) => i \in boot.connected

\* C15: once the configuration has loaded and the exporter is constructed,
\* no two collectors share a name, the name index holds one entry per
\* collector and FindTarget(name) is, for every collector, that collector
C15_UniqueNames ==
    (boot.step \in {"exporter", "gather", "listening"} /\ built = "ok") =>
        /\ \A i, j \in DOMAIN Collectors :
               Collectors[i].Name = Collectors[j].Name => i = j
        /\ Cardinality(DOMAIN KibanaByName) = Len(Collectors)
        /\ \A i \in DOMAIN Collectors : FindTarget(Collectors[i].Name) = i

\* the field of the payload m that the gauge called name reports
PayloadField(m, name) ==
    CASE name = "concurrent_connections" -> m.ConcurrentConnections
      [] name = "millis_uptime" -> m.UptimeInMillis
      [] name = "heap_max_in_bytes" -> m.TotalInBytes
      [] name = "heap_used_in_bytes" -> m.UsedInBytes
      [] name = "os_load_1m" -> m.Load1m
      [] name = "os_load_5m" -> m.Load5m
      [] name = "os_load_15m" -> m.Load15m
      [] name = "response_average" -> m.AvgInMillis
      [] name = "response_max" -> m.MaxInMillis
      [] name = "requests_disconnects" -> m.Disconnects
      [] name = "requests_total" -> m.Total

\* C23: whatever cycles came before, every secondary gauge value a cycle
\* emits is the corresponding field of the payload fetched and decoded in
\* that same cycle, never a value an earlier cycle left in the gauges
C23_NoStaleValues ==
    \A p \in Procs :
        CycleEnded(p) =>
            \A i \in DOMAIN emitted[p] :
                emitted[p][i].name \notin {"status", "info"} =>
                    /\ outcome[p] = "ok"
                    /\ emitted[p][i].value = PayloadField(metrics[p], emitted[p][i].name)

\* the info samples among the samples e
InfoSamples(e) == { i \in DOMAIN e : e[i].name = "info" }

\* C24: whatever cycles came before, a healthy cycle emits exactly one info
\* sample, with value 1 and labelled with the version and the build number
\* of the payload decoded in that cycle; label pairs of earlier cycles are
\* not emitted again
C24_OneInfoSample ==
    \A p \in Procs :
        (CycleEnded(p) /\ outcome[p] = "ok" /\ IsGreenAnyCase(metrics[p].State)) =>
            /\ Cardinality(InfoSamples(emitted[p])) = 1
            /\ \A i \in InfoSamples(emitted[p]) :
                  /\ emitted[p][i].value = 1
                  /\ emitted[p][i].labels =
                        <<metrics[p].Version, Digits(metrics[p].Build)>>

\* C25: Collect releases the lock on every way out, so under fair scheduling,
\* every fetch returning, every request waiting for the lock acquires it and
\* its Collect completes, and the lock is never held forever
C25_LockAlwaysReleased ==
    \A p \in Procs :
        /\ (pc[p] = "collect") ~> (pc[p] = "idle")
        /\ (lock = p) ~> (lock # p)

\* main is past the handling of --kibana.uri, which was given, and did not
\* exit on a configuration file it could not load
UriHandled ==
    /\ boot.kibanaURI # <<>>
    /\ boot.step \notin {"start", "loaded"}
    /\ ~(boot.configFile.given /\ Load(boot.configFile).err)

\* C26: with a URL on the command line the active target set is exactly one
\* profile, named as main names it and built from that URL, and start-up goes
\* on to construct its collector, whether a configuration file was loaded
\* (its targets replaced) or none was given
C26_UriSynthesizesDefault ==
    UriHandled =>
        /\ boot.step # "panic"
        /\ ~boot.kibanas.nil
        /\ Len(boot.kibanas.Kibanas) = 1
        /\ boot.kibanas.Kibanas[1].Name = TargetName(1)
        /\ Url(boot.kibanas.Kibanas[1]) = boot.kibanaURI
        /\ boot.step \in {"collectors", "exporter", "gather", "listening"} =>
               (Len(Collectors) = 1 /\ Collectors[1].Name = TargetName(1))

\* C21: WaitForConnection returns only after a TestConnection that returned
\* true, on a fetch that succeeded; after each false result it calls
\* TestConnection again, however many came before; and once every fetch of
\* the target succeeds and decodes it eventually returns
C21_WaitForConnection ==
    /\ [](conn.pc = "returned" => (conn.result /\ conn.o \in {"ok", "nullbody"}))
    /\ (conn.loop /\ conn.pc = "tested" /\ ~conn.result) ~> (conn.pc = "test")
    /\ (conn.loop /\ conn.up /\ Collectors[conn.c].reqOk) ~> (conn.pc = "returned")

\* WaitForConnection has returned after a false result and a sleep, the
\* target having come up
C21_Witness ==
    /\ conn.pc = "returned"
    /\ conn.loop
    /\ conn.failed
    /\ conn.up
    /\ conn.o = "ok"

\* C22: State of a collector is written only inside the locked cycle: every
\* step that changes it is a step of the request holding the exporter's
\* lock, in its scrape
C22_StateWrittenUnderLock ==
    [][State' # State =>
          (lock # NoProc /\ pc[lock] = "fetching" /\ pc'[lock] = "scraped")]_vars

====
